---------------------------- MODULE Spec2Model ----------------------------
(***************************************************************************)
(* Model of nml/output_base.py: OutputBase (in-memory staging of output,   *)
(* copied to the real file on close) and BinaryOutputBase (sprite framing, *)
(* normalisation of signed values to unsigned bytes, words and dwords,     *)
(* variable sized output).                                                 *)
(*                                                                         *)
(* Python integers are unbounded, the dword range reaches 2^32, and TLC's  *)
(* integers are 32 bit.  A Python int is therefore modelled as a pair      *)
(* <<hi, lo>> that stands for hi * 65536 + lo with 0 <= lo < 65536.        *)
(***************************************************************************)
EXTENDS Integers, Sequences, FiniteSets, TLC

VARIABLES
    file,            \* self.file: "None", "open" (a StringIO) or "closed" (a closed StringIO)
    buf,             \* the contents of the StringIO behind self.file
    in_sprite,       \* self.in_sprite
    expected_count,  \* self.expected_count
    byte_count,      \* self.byte_count
    hooks,           \* "abstract": a BinaryOutputBase itself; "concrete": a subclass with the hooks
    real_file,       \* the handle open_file returned last, and how often open_file was called
    call,            \* the last call made on the writer, as its caller observed it
    frame_size,      \* history: the size given to the last successful start_sprite
    frame_sum,       \* history: the widths of the successful prepare_* calls since then, summed
    staged,          \* history: the data written to self.file since the last open(), in order
    lost             \* history: the last open() replaced a buffer that held data

vars == <<file, buf, in_sprite, expected_count, byte_count, hooks, real_file, call,
          frame_size, frame_sum, staged, lost>>

-----------------------------------------------------------------------------
(* Bounds of the model *)

\* largest size given to start_sprite
MaxSize == 5
\* byte_count is not driven beyond this
MaxBytes == 6
\* longest contents of the staging buffer
MaxBuf == 2
\* open_file is called at most this often
MaxOpens == 2

-----------------------------------------------------------------------------
(* Python integers as <<hi, lo>> *)

Base == 2^16

Num(i) == <<i \div Base, i % Base>>

NumLe(a, b) == a[1] < b[1] \/ (a[1] = b[1] /\ a[2] <= b[2])

NumLt(a, b) == a[1] < b[1] \/ (a[1] = b[1] /\ a[2] < b[2])

NumAdd(a, b) == <<a[1] + b[1] + ((a[2] + b[2]) \div Base), (a[2] + b[2]) % Base>>

\* the value of a call that returns nothing or raises
None == <<>>


-----------------------------------------------------------------------------
(* The object and what a call on it comes to *)

\* the BinaryOutputBase attributes a method reads and assigns
Self == [in_sprite |-> in_sprite, expected_count |-> expected_count,
         byte_count |-> byte_count]

\* a method that returned ret and left the object as s, having called the hooks in log
Return(s, ret, log) ==
    [self |-> s, result |-> "ok", ret |-> ret, log |-> log, msg |-> None]

\* a method that raised: result names the failing statement, msg the assert's message
Raise(s, result, log, msg) ==
    [self |-> s, result |-> result, ret |-> None, log |-> log, msg |-> msg]

\* one entry of a call's log: a hook or step the call invoked, the argument it got
\* and the normalized value the encoder put out for it (None if it put out nothing)
Step(name, arg, out) == [step |-> name, arg |-> arg, out |-> out]

-----------------------------------------------------------------------------
(* BinaryOutputBase.prepare_byte / prepare_word / prepare_dword *)

\* normalize_byte that leaves -128 as it is
normalize_byte_strict(value) ==
    IF NumLt(Num(-128), value) /\ NumLt(value, Num(0))
    THEN NumAdd(value, Num(256)) ELSE value

normalize_byte(value) ==
    IF NumLe(Num(-128), value) /\ NumLt(value, Num(0))
    THEN NumAdd(value, Num(256)) ELSE value

\* fits_byte that lets 256 pass
fits_byte_wide(value) == NumLe(Num(0), value) /\ NumLe(value, Num(256))

fits_byte(value) == NumLe(Num(0), value) /\ NumLe(value, Num(255))

\* prepare_byte without the assert on in_sprite
prepare_byte_anywhere(s, value) ==
    IF ~fits_byte(normalize_byte(value)) THEN Raise(s, "RangeViolation", <<>>, None)
    ELSE Return([s EXCEPT !.byte_count = @ + 1], normalize_byte(value), <<>>)

prepare_byte(s, value) ==
    IF ~s.in_sprite THEN Raise(s, "PreconditionViolation", <<>>, None)
    ELSE IF ~fits_byte(normalize_byte(value)) THEN Raise(s, "RangeViolation", <<>>, None)
    ELSE Return([s EXCEPT !.byte_count = @ + 1], normalize_byte(value), <<>>)

normalize_word(value) ==
    IF NumLe(Num(-32768), value) /\ NumLt(value, Num(0))
    THEN NumAdd(value, <<1, 0>>) ELSE value

fits_word(value) == NumLe(Num(0), value) /\ NumLe(value, Num(65535))

\* prepare_word without the assert on in_sprite
prepare_word_anywhere(s, value) ==
    IF ~fits_word(normalize_word(value)) THEN Raise(s, "RangeViolation", <<>>, None)
    ELSE Return([s EXCEPT !.byte_count = @ + 2], normalize_word(value), <<>>)

prepare_word(s, value) ==
    IF ~s.in_sprite THEN Raise(s, "PreconditionViolation", <<>>, None)
    ELSE IF ~fits_word(normalize_word(value)) THEN Raise(s, "RangeViolation", <<>>, None)
    ELSE Return([s EXCEPT !.byte_count = @ + 2], normalize_word(value), <<>>)

\* normalize_dword that adds the span of the word's hex digits less one: 0x10000000
normalize_dword_short(value) ==
    IF NumLe(<<-32768, 0>>, value) /\ NumLt(value, Num(0))
    THEN NumAdd(value, <<4096, 0>>) ELSE value

normalize_dword(value) ==
    IF NumLe(<<-32768, 0>>, value) /\ NumLt(value, Num(0))
    THEN NumAdd(value, <<65536, 0>>) ELSE value

fits_dword(value) == NumLe(Num(0), value) /\ NumLe(value, <<65535, 65535>>)

\* prepare_dword that counts its bytes before it checks the range
prepare_dword_eager(s, value) ==
    IF ~s.in_sprite THEN Raise(s, "PreconditionViolation", <<>>, None)
    ELSE IF ~fits_dword(normalize_dword(value))
         THEN Raise([s EXCEPT !.byte_count = @ + 4], "RangeViolation", <<>>, None)
    ELSE Return([s EXCEPT !.byte_count = @ + 4], normalize_dword(value), <<>>)

prepare_dword(s, value) ==
    IF ~s.in_sprite THEN Raise(s, "PreconditionViolation", <<>>, None)
    ELSE IF ~fits_dword(normalize_dword(value)) THEN Raise(s, "RangeViolation", <<>>, None)
    ELSE Return([s EXCEPT !.byte_count = @ + 4], normalize_dword(value), <<>>)

-----------------------------------------------------------------------------
(* The hooks of BinaryOutputBase.  A BinaryOutputBase itself raises        *)
(* NotImplementedError in each; a concrete encoder normalizes the value    *)
(* with the matching prepare_* and puts the result out.                    *)

print_bytex_abstract(s, byte) ==
    Raise(s, "NotImplementedError", <<Step("print_bytex", byte, None)>>, None)

print_bytex_concrete(s, byte) ==
    LET r == prepare_byte(s, byte)
    IN  [r EXCEPT !.log = <<Step("print_bytex", byte, r.ret)>>, !.ret = None]

print_bytex(s, byte) ==
    IF hooks = "abstract" THEN print_bytex_abstract(s, byte)
    ELSE print_bytex_concrete(s, byte)

print_wordx_abstract(s, byte) ==
    Raise(s, "NotImplementedError", <<Step("print_wordx", byte, None)>>, None)

print_wordx_concrete(s, byte) ==
    LET r == prepare_word(s, byte)
    IN  [r EXCEPT !.log = <<Step("print_wordx", byte, r.ret)>>, !.ret = None]

print_wordx(s, byte) ==
    IF hooks = "abstract" THEN print_wordx_abstract(s, byte)
    ELSE print_wordx_concrete(s, byte)

print_dwordx_abstract(s, byte) ==
    Raise(s, "NotImplementedError", <<Step("print_dwordx", byte, None)>>, None)

print_dwordx_concrete(s, byte) ==
    LET r == prepare_dword(s, byte)
    IN  [r EXCEPT !.log = <<Step("print_dwordx", byte, r.ret)>>, !.ret = None]

print_dwordx(s, byte) ==
    IF hooks = "abstract" THEN print_dwordx_abstract(s, byte)
    ELSE print_dwordx_concrete(s, byte)

newline_abstract(s) ==
    Raise(s, "NotImplementedError", <<Step("newline", None, None)>>, None)

newline_concrete(s) == Return(s, None, <<Step("newline", None, None)>>)

newline(s) ==
    IF hooks = "abstract" THEN newline_abstract(s) ELSE newline_concrete(s)

-----------------------------------------------------------------------------
(* BinaryOutputBase.print_varx *)

\* statement a, then statement b unless a raised
Then(a, b) == IF a.result # "ok" THEN a ELSE [b EXCEPT !.log = a.log \o @]

\* print_varx that normalizes a byte itself before it hands it to print_bytex
print_varx_normalizing(s, value, size) ==
    IF size = 1 THEN print_bytex(s, normalize_byte(value))
    ELSE IF size = 2 THEN print_wordx(s, value)
    ELSE IF size = 3
         THEN LET a == print_bytex(s, Num(255))
              IN  Then(a, print_wordx(a.self, value))
    ELSE IF size = 4 THEN print_dwordx(s, value)
    ELSE Raise(s, "UnsupportedWidth", <<>>, None)

\* print_varx that puts the word before the 0xFF of the extended byte
print_varx_swapped(s, value, size) ==
    IF size = 1 THEN print_bytex(s, value)
    ELSE IF size = 2 THEN print_wordx(s, value)
    ELSE IF size = 3
         THEN LET a == print_wordx(s, value)
              IN  Then(a, print_bytex(a.self, Num(255)))
    ELSE IF size = 4 THEN print_dwordx(s, value)
    ELSE Raise(s, "UnsupportedWidth", <<>>, None)

\* print_varx that takes every size above 3 as a dword
print_varx_lenient(s, value, size) ==
    IF size = 1 THEN print_bytex(s, value)
    ELSE IF size = 2 THEN print_wordx(s, value)
    ELSE IF size = 3
         THEN LET a == print_bytex(s, Num(255))
              IN  Then(a, print_wordx(a.self, value))
    ELSE IF size >= 4 THEN print_dwordx(s, value)
    ELSE Raise(s, "UnsupportedWidth", <<>>, None)

print_varx(s, value, size) ==
    IF size = 1 THEN print_bytex(s, value)
    ELSE IF size = 2 THEN print_wordx(s, value)
    ELSE IF size = 3
         THEN LET a == print_bytex(s, Num(255))
              IN  Then(a, print_wordx(a.self, value))
    ELSE IF size = 4 THEN print_dwordx(s, value)
    ELSE Raise(s, "UnsupportedWidth", <<>>, None)

-----------------------------------------------------------------------------
(* BinaryOutputBase.start_sprite / end_sprite / pre_close *)

\* start_sprite that goes on counting where the last sprite ended
start_sprite_no_reset(s, expected_size) ==
    IF s.in_sprite THEN Raise(s, "PreconditionViolation", <<>>, None)
    ELSE Return([in_sprite |-> TRUE, expected_count |-> expected_size,
                 byte_count |-> s.byte_count], None, <<>>)

\* start_sprite without its assert: a sprite is started inside a sprite
start_sprite_nested(s, expected_size) ==
    Return([in_sprite |-> TRUE, expected_count |-> expected_size, byte_count |-> 0],
           None, <<>>)

start_sprite(s, expected_size) ==
    IF s.in_sprite THEN Raise(s, "PreconditionViolation", <<>>, None)
    ELSE Return([in_sprite |-> TRUE, expected_count |-> expected_size, byte_count |-> 0],
                None, <<>>)

\* end_sprite without the assert on in_sprite
end_sprite_unasserted(s) ==
    LET s1 == [s EXCEPT !.in_sprite = FALSE]
        n  == newline(s1)
    IN  IF n.result # "ok" THEN n
        ELSE IF s1.expected_count = s1.byte_count THEN Return(s1, None, n.log)
        ELSE Raise(s1, "FrameLengthMismatch", n.log, <<s1.expected_count, s1.byte_count>>)

\* end_sprite that leaves the sprite open when the counts differ
end_sprite_late_reset(s) ==
    IF ~s.in_sprite THEN Raise(s, "PreconditionViolation", <<>>, None)
    ELSE LET n == newline(s)
         IN  IF n.result # "ok" THEN n
             ELSE IF s.expected_count = s.byte_count
                  THEN Return([s EXCEPT !.in_sprite = FALSE], None, n.log)
             ELSE Raise(s, "FrameLengthMismatch", n.log, <<s.expected_count, s.byte_count>>)

\* end_sprite that accepts a sprite with bytes missing
end_sprite_short(s) ==
    IF ~s.in_sprite THEN Raise(s, "PreconditionViolation", <<>>, None)
    ELSE LET s1 == [s EXCEPT !.in_sprite = FALSE]
             n  == newline(s1)
         IN  IF n.result # "ok" THEN n
             ELSE IF s1.expected_count >= s1.byte_count THEN Return(s1, None, n.log)
             ELSE Raise(s1, "FrameLengthMismatch", n.log,
                        <<s1.expected_count, s1.byte_count>>)

end_sprite(s) ==
    IF ~s.in_sprite THEN Raise(s, "PreconditionViolation", <<>>, None)
    ELSE LET s1 == [s EXCEPT !.in_sprite = FALSE]
             n  == newline(s1)
         IN  IF n.result # "ok" THEN n
             ELSE IF s1.expected_count = s1.byte_count THEN Return(s1, None, n.log)
             ELSE Raise(s1, "FrameLengthMismatch", n.log,
                        <<s1.expected_count, s1.byte_count>>)

pre_close(s) ==
    IF s.in_sprite THEN Raise(s, "PreconditionViolation", <<Step("pre_close", None, None)>>, None)
    ELSE Return(s, None, <<Step("pre_close", None, None)>>)

-----------------------------------------------------------------------------
(* OutputBase: open, open_file, close, and writing through self.file *)

\* the whole writer: the BinaryOutputBase attributes, self.file and the real file
Writer == [self |-> Self, file |-> file, buf |-> buf, real_file |-> real_file]

\* what a call on the whole writer comes to
Outcome(w, result, log) == [writer |-> w, result |-> result, log |-> log]

\* open that keeps the buffer it has
open_once(w) ==
    IF w.file = "open" THEN Outcome(w, "ok", <<>>)
    ELSE Outcome([w EXCEPT !.file = "open", !.buf = <<>>], "ok", <<>>)

\* open that opens the real file at once
open_eager(w) ==
    Outcome([w EXCEPT !.file = "open", !.buf = <<>>, !.real_file.opens = @ + 1,
                      !.real_file.handle = "open"], "ok", <<>>)

open(w) == Outcome([w EXCEPT !.file = "open", !.buf = <<>>], "ok", <<>>)

\* self.file.write that puts the data in front of the contents
file_write_front(w, data) ==
    IF w.file = "None" THEN Outcome(w, "AttributeError", <<>>)
    ELSE IF w.file = "closed" THEN Outcome(w, "ValueError", <<>>)
    ELSE Outcome([w EXCEPT !.buf = <<data>> \o @], "ok", <<>>)

\* self.file.write(data), as the callers and the encoders do
file_write(w, data) ==
    IF w.file = "None" THEN Outcome(w, "AttributeError", <<>>)
    ELSE IF w.file = "closed" THEN Outcome(w, "ValueError", <<>>)
    ELSE Outcome([w EXCEPT !.buf = Append(@, data)], "ok", <<>>)

\* OutputBase.open_file raises
open_file_abstract(w) ==
    Outcome([w EXCEPT !.real_file.opens = @ + 1], "NotImplementedError", <<>>)

\* the open_file of a subclass opens the real file and returns a new handle of it,
\* unless io makes that fail
open_file_concrete(w, io) ==
    LET called == [w EXCEPT !.real_file.opens = @ + 1]
    IN  IF io = "open_fails" THEN Outcome(called, "IOError", <<>>)
        ELSE Outcome([called EXCEPT !.real_file.handle = "open",
                                    !.real_file.written = <<>>], "ok", <<>>)

open_file(w, io) ==
    IF hooks = "abstract" THEN open_file_abstract(w) ELSE open_file_concrete(w, io)

CloseSteps == <<"pre_close", "open_file", "getvalue", "write", "close", "file.close">>

\* the first n steps of close, as log entries
CloseLog(n) == [i \in 1..n |-> Step(CloseSteps[i], None, None)]

\* close that does not close self.file
close_keeps_buffer(w, io) ==
    LET p == pre_close(w.self)
        o == open_file(w, io)
        w3 == [o.writer EXCEPT !.real_file.written = Append(@, w.buf)]
        w4 == [w3 EXCEPT !.real_file.handle = "closed"]
    IN  IF p.result # "ok" THEN Outcome(w, p.result, CloseLog(1))
        ELSE IF o.result # "ok" THEN Outcome(o.writer, o.result, CloseLog(2))
        ELSE IF w.file = "None" THEN Outcome(o.writer, "AttributeError", CloseLog(3))
        ELSE IF w.file = "closed" THEN Outcome(o.writer, "ValueError", CloseLog(3))
        ELSE IF io = "write_fails" THEN Outcome(o.writer, "IOError", CloseLog(4))
        ELSE Outcome(w4, "ok", CloseLog(6))

\* close that opens the real file before it calls pre_close
close_open_first(w, io) ==
    LET o == open_file(w, io)
        p == pre_close(w.self)
        w3 == [o.writer EXCEPT !.real_file.written = Append(@, w.buf)]
        w4 == [w3 EXCEPT !.real_file.handle = "closed"]
        w5 == [w4 EXCEPT !.file = "closed", !.buf = <<>>]
    IN  IF o.result # "ok" THEN Outcome(o.writer, o.result, CloseLog(2))
        ELSE IF p.result # "ok" THEN Outcome(o.writer, p.result, CloseLog(1))
        ELSE IF w.file = "None" THEN Outcome(o.writer, "AttributeError", CloseLog(3))
        ELSE IF w.file = "closed" THEN Outcome(o.writer, "ValueError", CloseLog(3))
        ELSE IF io = "write_fails" THEN Outcome(o.writer, "IOError", CloseLog(4))
        ELSE Outcome(w5, "ok", CloseLog(6))

\* close that closes self.file and leaves the real file open
close_unreleased(w, io) ==
    LET p == pre_close(w.self)
        o == open_file(w, io)
        w3 == [o.writer EXCEPT !.real_file.written = Append(@, w.buf)]
        w5 == [w3 EXCEPT !.file = "closed", !.buf = <<>>]
    IN  IF p.result # "ok" THEN Outcome(w, p.result, CloseLog(1))
        ELSE IF o.result # "ok" THEN Outcome(o.writer, o.result, CloseLog(2))
        ELSE IF w.file = "None" THEN Outcome(o.writer, "AttributeError", CloseLog(3))
        ELSE IF w.file = "closed" THEN Outcome(o.writer, "ValueError", CloseLog(3))
        ELSE IF io = "write_fails" THEN Outcome(o.writer, "IOError", CloseLog(4))
        ELSE Outcome(w5, "ok", CloseLog(6))

close(w, io) ==
    LET p == pre_close(w.self)
        o == open_file(w, io)
        w3 == [o.writer EXCEPT !.real_file.written = Append(@, w.buf)]
        w4 == [w3 EXCEPT !.real_file.handle = "closed"]
        w5 == [w4 EXCEPT !.file = "closed", !.buf = <<>>]
    IN  IF p.result # "ok" THEN Outcome(w, p.result, CloseLog(1))
        ELSE IF o.result # "ok" THEN Outcome(o.writer, o.result, CloseLog(2))
        ELSE IF w.file = "None" THEN Outcome(o.writer, "AttributeError", CloseLog(3))
        ELSE IF w.file = "closed" THEN Outcome(o.writer, "ValueError", CloseLog(3))
        ELSE IF io = "write_fails" THEN Outcome(o.writer, "IOError", CloseLog(4))
        ELSE Outcome(w5, "ok", CloseLog(6))

-----------------------------------------------------------------------------
(* The inputs of the calls *)

\* prepare_byte is called with these: the values around the bounds of the byte
ByteValues ==
    { Num(-130), Num(-129), Num(-128), Num(-127), Num(-1), Num(0), Num(5),
      Num(254), Num(255), Num(256), Num(257), <<65536, 0>> }

\* prepare_word is called with these: the values around the bounds of the word
WordValues ==
    { Num(-32770), Num(-32769), Num(-32768), Num(-32767), Num(-1), Num(0), Num(300),
      Num(65534), Num(65535), Num(65536), Num(65537), <<65536, 0>> }

\* prepare_dword is called with these: the values around the bounds of the dword
\* (-2^31 - 2 .. -2^31 + 1, 2^32 - 2 .. 2^32 + 1), and others
DwordValues ==
    { <<-32769, 65534>>, <<-32769, 65535>>, <<-32768, 0>>, <<-32768, 1>>, Num(-1), Num(0),
      Num(65536), <<65535, 65534>>, <<65535, 65535>>, <<65536, 0>>, <<65536, 1>>,
      <<-65536, 0>> }

\* print_varx is called with these values
VarValues == { Num(-1), Num(5), Num(300), Num(65536) }

\* and with these sizes, of which 1 .. 4 are supported
VarSizes == 0..5

\* start_sprite is called with these sizes
Sizes == 0..MaxSize

\* every value from below the byte's range to above it
ByteRange == { Num(i) : i \in -130..257 }

\* the strings written to self.file
Data == {"a", "b"}

\* the real file opens and takes the data, or opening it fails, or writing to it fails
IO == {"ok", "open_fails", "write_fails"}

-----------------------------------------------------------------------------
(* The calls a user of the writer makes *)

\* the widths of the values the encoders put out during a call, summed
RECURSIVE Emitted(_)
Emitted(log) ==
    IF log = <<>> THEN 0
    ELSE LET e == Head(log)
             w == IF e.out = None THEN 0
                  ELSE IF e.step = "print_bytex" THEN 1
                  ELSE IF e.step = "print_wordx" THEN 2 ELSE 4
         IN  w + Emitted(Tail(log))

\* the call as its caller saw it: the method, its arguments, the attributes before
\* it (pre: those of BinaryOutputBase, before: self.file), and what it came to
Called(op, arg, size, data, pre, r) ==
    [op |-> op, arg |-> arg, size |-> size, data |-> data, pre |-> pre,
     before |-> [file |-> file, buf |-> buf],
     result |-> r.result, ret |-> r.ret, log |-> r.log, msg |-> r.msg]

\* a call of a BinaryOutputBase method that came to r, adding width to the frame
Framed(op, arg, size, r, width) ==
    /\ r.self.byte_count <= MaxBytes
    /\ in_sprite' = r.self.in_sprite
    /\ expected_count' = r.self.expected_count
    /\ byte_count' = r.self.byte_count
    /\ call' = Called(op, arg, size, "", Self, r)
    /\ frame_sum' = IF op = "start_sprite" /\ r.result = "ok" THEN 0 ELSE frame_sum + width
    /\ frame_size' = IF op = "start_sprite" /\ r.result = "ok" THEN size ELSE frame_size
    /\ UNCHANGED <<file, buf, hooks, real_file, staged, lost>>

\* a call of an OutputBase method that came to r
Staged(op, data, r) ==
    /\ Len(r.writer.buf) <= MaxBuf
    /\ r.writer.real_file.opens <= MaxOpens
    /\ file' = r.writer.file
    /\ buf' = r.writer.buf
    /\ real_file' = r.writer.real_file
    /\ in_sprite' = r.writer.self.in_sprite
    /\ expected_count' = r.writer.self.expected_count
    /\ byte_count' = r.writer.self.byte_count
    /\ call' = Called(op, None, 0, data, Self,
                       [result |-> r.result, ret |-> None, log |-> r.log, msg |-> None])
    /\ staged' = IF op = "open" THEN <<>>
                 ELSE IF op = "write" /\ r.result = "ok" THEN Append(staged, data)
                 ELSE staged
    /\ lost' = IF op = "open" THEN file = "open" /\ buf # <<>> ELSE lost
    /\ UNCHANGED <<hooks, frame_size, frame_sum>>

PrepareByte(value) ==
    LET r == prepare_byte(Self, value)
    IN  Framed("prepare_byte", value, 0, r, IF r.result = "ok" THEN 1 ELSE 0)

PrepareWord(value) ==
    LET r == prepare_word(Self, value)
    IN  Framed("prepare_word", value, 0, r, IF r.result = "ok" THEN 2 ELSE 0)

PrepareDword(value) ==
    LET r == prepare_dword(Self, value)
    IN  Framed("prepare_dword", value, 0, r, IF r.result = "ok" THEN 4 ELSE 0)

PrintVarx(value, size) ==
    LET r == print_varx(Self, value, size)
    IN  Framed("print_varx", value, size, r, Emitted(r.log))

StartSprite(expected_size) ==
    Framed("start_sprite", None, expected_size, start_sprite(Self, expected_size), 0)

EndSprite == Framed("end_sprite", None, 0, end_sprite(Self), 0)

Open == Staged("open", "", open(Writer))

Write(data) == Staged("write", data, file_write(Writer, data))

Close(io) == Staged("close", "", close(Writer, io))

-----------------------------------------------------------------------------
(* The specification *)

Init ==
    /\ file = "None"
    /\ buf = <<>>
    /\ in_sprite = FALSE
    /\ expected_count = 0
    /\ byte_count = 0
    /\ hooks \in {"abstract", "concrete"}
    /\ real_file = [opens |-> 0, handle |-> "none", written |-> <<>>]
    /\ call = Called("__init__", None, 0, "", Self, Return(Self, None, <<>>))
    /\ frame_size = 0
    /\ frame_sum = 0
    /\ staged = <<>>
    /\ lost = FALSE

\* the sprites of a file: framing, normalisation and variable sized output
Next ==
    \/ \E value \in ByteValues : PrepareByte(value)
    \/ \E value \in WordValues : PrepareWord(value)
    \/ \E value \in DwordValues : PrepareDword(value)
    \/ \E value \in VarValues, size \in VarSizes : PrintVarx(value, size)
    \/ \E expected_size \in Sizes : StartSprite(expected_size)
    \/ EndSprite

Spec == Init /\ [][Next]_vars

\* the life of a file: every call, the sprites with few values
NextLife ==
    \/ Open
    \/ \E data \in Data : Write(data)
    \/ \E io \in IO : Close(io)
    \/ StartSprite(1)
    \/ EndSprite
    \/ \E value \in {Num(-1), Num(256)} : PrepareByte(value)
    \/ \E value \in {Num(300), Num(65536)} : PrepareWord(value)
    \/ \E value \in {Num(0), <<65536, 0>>} : PrepareDword(value)
    \/ \E size \in {0, 3} : PrintVarx(Num(5), size)

SpecLife == Init /\ [][NextLife]_vars

\* prepare_byte on every value of ByteRange
NextByte ==
    \/ \E value \in ByteRange : PrepareByte(value)
    \/ StartSprite(1)
    \/ EndSprite

SpecByte == Init /\ [][NextByte]_vars

-----------------------------------------------------------------------------
(* Properties *)

\* the integer a pair stands for, for pairs within TLC's integers
IntOf(n) == n[1] * Base + n[2]

PrepareOps == {"prepare_byte", "prepare_word", "prepare_dword"}

\* C1: frame accounting.  When end_sprite is called on a writer with its hooks, in a
\* sprite started with start_sprite(N) in which the successful prepare_* calls had
\* widths that sum to S, it succeeds if S = N, and if S # N it fails on the
\* comparison of the counts, reporting N as expected and S as actual.
C1_FrameAccounting ==
    (call.op = "end_sprite" /\ call.pre.in_sprite /\ hooks = "concrete") =>
        /\ frame_sum = frame_size => call.result = "ok"
        /\ frame_sum # frame_size =>
              /\ call.result = "FrameLengthMismatch"
              /\ call.msg = <<frame_size, frame_sum>>

\* start_sprite(5), one dword, end_sprite: expected 5, actual 4
C1_Witness ==
    /\ call.op = "end_sprite" /\ call.pre.in_sprite /\ hooks = "concrete"
    /\ frame_size = 5 /\ frame_sum = 4
    /\ call.result = "FrameLengthMismatch" /\ call.msg = <<5, 4>>

\* C2: nesting rejection.  start_sprite called while a sprite is open fails on its
\* precondition, whatever size it is given, and the open sprite stays as it was.
C2_NestingRejected ==
    (call.op = "start_sprite" /\ call.pre.in_sprite) =>
        /\ call.result = "PreconditionViolation"
        /\ Self = call.pre

\* a second start_sprite, with another size than the first
C2_Witness ==
    /\ call.op = "start_sprite" /\ call.pre.in_sprite
    /\ call.size # call.pre.expected_count
    /\ call.result = "PreconditionViolation"

\* C3: prepare_byte, prepare_word and prepare_dword called while no sprite is open
\* fail on their precondition, for every value, and return nothing.
C3_PrepareOutsideSprite ==
    (call.op \in PrepareOps /\ ~call.pre.in_sprite) =>
        /\ call.result = "PreconditionViolation"
        /\ call.ret = None

\* prepare_word(300), a value a word holds, after a sprite was ended
C3_Witness ==
    /\ call.op = "prepare_word" /\ ~call.pre.in_sprite /\ call.arg = Num(300)
    /\ frame_sum > 0
    /\ call.result = "PreconditionViolation"

\* C4: close() called while a sprite is open fails on the precondition of pre_close,
\* and before open_file is called: pre_close is the only step taken, and the real
\* file is neither opened nor written, nor is self.file closed.
C4_CloseInSprite ==
    [][(call'.op = "close" /\ in_sprite) =>
          /\ call'.result = "PreconditionViolation"
          /\ call'.log = <<Step("pre_close", None, None)>>
          /\ real_file' = real_file
          /\ file' = file /\ buf' = buf]_vars

\* close() in a sprite, with data staged that it would have written
C4_Witness ==
    /\ call.op = "close" /\ call.pre.in_sprite /\ hooks = "concrete"
    /\ file = "open" /\ buf # <<>>
    /\ call.result = "PreconditionViolation"
    /\ real_file.opens = 0

\* the pairs that stand for the integers next to the byte and the word
Small(n) == Len(n) = 2 /\ n[1] \in -2..1

\* C5: in a sprite, prepare_byte(v) with -128 <= v <= 255 returns v + 256 if v is
\* negative and v otherwise, a value of 0 .. 255, and it returns for v what it
\* returns for v - 256 when that is at least -128.
C5_ByteNormalized ==
    (call.op = "prepare_byte" /\ call.pre.in_sprite /\ Small(call.arg)
        /\ IntOf(call.arg) \in -128..255) =>
        LET v == IntOf(call.arg)
        IN  /\ call.result = "ok"
            /\ call.ret = Num(IF v < 0 THEN v + 256 ELSE v)
            /\ IntOf(call.ret) \in 0..255
            /\ v - 256 \in -128..255 =>
                  call.ret = prepare_byte(call.pre, Num(v - 256)).ret

\* prepare_byte(-128) returned 128
C5_Witness ==
    /\ call.op = "prepare_byte" /\ call.pre.in_sprite
    /\ call.arg = Num(-128) /\ call.result = "ok" /\ call.ret = Num(128)

\* C6: in a sprite, prepare_byte(v) with v below -128 or above 255 fails on the
\* range of the byte, returns nothing and counts no byte.
C6_ByteRange ==
    (call.op = "prepare_byte" /\ call.pre.in_sprite
        /\ (NumLt(call.arg, Num(-128)) \/ NumLt(Num(255), call.arg))) =>
        /\ call.result = "RangeViolation"
        /\ call.ret = None
        /\ byte_count = call.pre.byte_count

\* prepare_byte(-129) and the range violation
C6_Witness ==
    /\ call.op = "prepare_byte" /\ call.pre.in_sprite
    /\ call.arg = Num(-129) /\ call.result = "RangeViolation"

\* v is in -32768 .. 65535
ValidWord(v) == v[1] \in {-1, 0} /\ (v[1] = -1 => v[2] >= 32768)

\* v is in -2^31 .. 2^32 - 1
ValidDword(v) == v[1] \in -32768..65535

\* C7: in a sprite, prepare_word accepts the values of -32768 .. 65535 and no other,
\* and returns the value modulo 65536; prepare_dword accepts the values of
\* -2^31 .. 2^32 - 1 and no other, and returns the value modulo 2^32; the values
\* they do not accept fail on the range.
C7_WordDwordRange ==
    /\ (call.op = "prepare_word" /\ call.pre.in_sprite) =>
          IF ValidWord(call.arg)
          THEN call.result = "ok" /\ call.ret = <<0, call.arg[2]>>
          ELSE call.result = "RangeViolation" /\ call.ret = None
    /\ (call.op = "prepare_dword" /\ call.pre.in_sprite) =>
          IF ValidDword(call.arg)
          THEN call.result = "ok" /\ call.ret = <<call.arg[1] % Base, call.arg[2]>>
          ELSE call.result = "RangeViolation" /\ call.ret = None

\* prepare_dword(-2^31) returned 2^31
C7_Witness ==
    /\ call.op = "prepare_dword" /\ call.pre.in_sprite
    /\ call.arg = <<-32768, 0>> /\ call.result = "ok" /\ call.ret = <<32768, 0>>

\* C8: print_varx(v, 3) calls print_bytex with 0xFF first and print_wordx with v
\* after it, and no other hook; in a sprite, with the hooks of an encoder and v in
\* the range of the word, both succeed, 0xFF and v modulo 65536 are put out, and
\* byte_count grows by 3.
C8_ExtendedByte ==
    (call.op = "print_varx" /\ call.size = 3) =>
        /\ Len(call.log) \in {1, 2}
        /\ call.log[1].step = "print_bytex" /\ call.log[1].arg = Num(255)
        /\ Len(call.log) = 2 =>
              call.log[2].step = "print_wordx" /\ call.log[2].arg = call.arg
        /\ (hooks = "concrete" /\ call.pre.in_sprite /\ ValidWord(call.arg)) =>
              /\ call.result = "ok"
              /\ Len(call.log) = 2
              /\ call.log[1].out = Num(255)
              /\ call.log[2].out = <<0, call.arg[2]>>
              /\ byte_count = call.pre.byte_count + 3

\* print_varx(-1, 3) put out 0xFF and 0xFFFF
C8_Witness ==
    /\ call.op = "print_varx" /\ call.size = 3 /\ call.arg = Num(-1)
    /\ hooks = "concrete" /\ call.pre.in_sprite
    /\ call.result = "ok"
    /\ call.log = <<Step("print_bytex", Num(255), Num(255)),
                    Step("print_wordx", Num(-1), Num(65535))>>
    /\ byte_count = call.pre.byte_count + 3

\* the hook print_varx calls for the sizes 1, 2 and 4
HookOf(size) ==
    IF size = 1 THEN "print_bytex" ELSE IF size = 2 THEN "print_wordx" ELSE "print_dwordx"

\* C9: print_varx with a size that is none of 1, 2, 3, 4 fails as an unsupported
\* width and calls no hook; with the size 1, 2 or 4 it calls one hook, print_bytex,
\* print_wordx or print_dwordx, with the value it was given.
C9_VarxDispatch ==
    (call.op = "print_varx") =>
        /\ call.size \notin 1..4 =>
              /\ call.result = "UnsupportedWidth"
              /\ call.log = <<>>
              /\ Self = call.pre
        /\ call.size \in {1, 2, 4} =>
              /\ Len(call.log) = 1
              /\ call.log[1].step = HookOf(call.size)
              /\ call.log[1].arg = call.arg

\* print_varx with the size 5, in a sprite
C9_Witness ==
    /\ call.op = "print_varx" /\ call.size = 5 /\ call.pre.in_sprite
    /\ call.result = "UnsupportedWidth" /\ call.log = <<>>

\* the steps of close() in their order; getvalue reads what write is given
CloseOrder == <<"pre_close", "open_file", "getvalue", "write", "close", "file.close">>

\* C10: close() takes its steps in the order pre_close, open_file, one write of the
\* whole staging buffer to the real file, close of the real file, close of the
\* staging buffer.  When it returns the real file has been opened once, has got the
\* contents of the buffer in one write and is closed, and the buffer is closed.
\* When a step fails no later step is taken: nothing is opened if pre_close fails,
\* nothing is written if open_file or reading the buffer or the write fails, and
\* the buffer is left as it was.
C10_CloseOrder ==
    [][(call'.op = "close") =>
          /\ Len(call'.log) \in 1..6
          /\ \A i \in 1..Len(call'.log) : call'.log[i].step = CloseOrder[i]
          /\ call'.result = "ok" =>
                /\ Len(call'.log) = 6
                /\ real_file'.opens = real_file.opens + 1
                /\ real_file'.written = <<buf>>
                /\ real_file'.handle = "closed"
                /\ file' = "closed"
          /\ call'.result # "ok" =>
                /\ Len(call'.log) < 6
                /\ file' = file /\ buf' = buf
                /\ Len(call'.log) = 1 => real_file' = real_file
                /\ Len(call'.log) = 2 =>
                      /\ real_file'.handle = real_file.handle
                      /\ real_file'.written = real_file.written
                /\ Len(call'.log) >= 3 =>
                      /\ real_file'.handle = "open"
                      /\ real_file'.written = <<>>]_vars

\* close() returned after "a" and "b" were staged
C10_Witness ==
    /\ call.op = "close" /\ call.result = "ok"
    /\ Len(call.log) = 6
    /\ real_file.written = << <<"a", "b">> >>
    /\ real_file.handle = "closed"
    /\ file = "closed"

\* C11 as claimed: over any sequence of calls open_file is called exactly once;
\* here for a writer with an open_file of its own that was opened and closed
C11_OpenedOnce == (hooks = "concrete" /\ file = "closed") => real_file.opens = 1

\* C11: open_file is called from close() alone, once by every close() that gets
\* past pre_close: no other call opens, writes or closes the real file, and a
\* writer on which close() was never called has not touched it.  A writer on which
\* close() is called again calls open_file again.
C11_OpenedByClose ==
    /\ real_file.opens = 0
    /\ [](real_file.opens = 0 => (real_file.handle = "none" /\ real_file.written = <<>>))
    /\ [][/\ call'.op # "close" => real_file' = real_file
          /\ call'.op = "close" =>
                real_file'.opens = real_file.opens + (IF in_sprite THEN 0 ELSE 1)]_vars

\* the second close() of a writer has called open_file again
C11_Witness ==
    /\ call.op = "close" /\ call.before.file = "closed"
    /\ hooks = "concrete"
    /\ real_file.opens = 2 /\ real_file.handle = "open"

\* what the real file got, its writes put together
RECURSIVE Received(_)
Received(written) ==
    IF written = <<>> THEN <<>> ELSE Head(written) \o Received(Tail(written))

\* C12: when close() has returned, the real file has got in one write what was
\* written to self.file since open(), in the order it was written, and no more;
\* if nothing was written it has got nothing.
C12_StagedCopied ==
    (call.op = "close" /\ call.result = "ok") =>
        /\ Len(real_file.written) = 1
        /\ Received(real_file.written) = staged
        /\ call.pre = Self

\* "b", then "a" were written, and close() handed them on in that order
C12_Witness ==
    /\ call.op = "close" /\ call.result = "ok"
    /\ staged = <<"b", "a">>
    /\ Received(real_file.written) = <<"b", "a">>

\* v is an unsigned value of the width of the hook: 0 .. 255, 0 .. 65535, 0 .. 2^32 - 1
Unsigned(hook, v) ==
    IF hook = "print_bytex" THEN v[1] = 0 /\ v[2] <= 255
    ELSE IF hook = "print_wordx" THEN v[1] = 0
    ELSE v[1] \in 0..65535

\* C13 as claimed: every value print_varx hands to print_bytex, print_wordx or
\* print_dwordx is normalized and in the range of that hook; here in a sprite
C13_HooksGetUnsigned ==
    (call.op = "print_varx" /\ call.pre.in_sprite) =>
        \A i \in 1..Len(call.log) : Unsigned(call.log[i].step, call.log[i].arg)

\* C13: print_varx hands the hooks the value it was given as it is, neither
\* normalized nor checked; the 0xFF of the size 3 is the one value it hands over
\* that is its own.  What an encoder puts out is what the prepare_* call it makes
\* returned, an unsigned value of the hook's width; a value that prepare_* does
\* not accept ends the call with a range violation and nothing is put out for it.
C13_HooksGetValue ==
    (call.op = "print_varx") =>
        \A i \in 1..Len(call.log) :
            /\ call.log[i].arg = IF call.size = 3 /\ i = 1 THEN Num(255) ELSE call.arg
            /\ call.log[i].out # None => Unsigned(call.log[i].step, call.log[i].out)
            /\ (call.log[i].out = None /\ hooks = "concrete" /\ call.pre.in_sprite) =>
                  call.result = "RangeViolation" /\ i = Len(call.log)

\* print_varx(65536, 2) handed 65536 to print_wordx, which put out nothing
C13_Witness ==
    /\ call.op = "print_varx" /\ call.size = 2 /\ call.arg = Num(65536)
    /\ hooks = "concrete" /\ call.pre.in_sprite
    /\ call.log = <<Step("print_wordx", Num(65536), None)>>
    /\ call.result = "RangeViolation"

\* C14 as claimed: print_varx called while no sprite is open fails on the
\* precondition, for every value and every size; here with the hooks of an encoder
C14_VarxOutsideSprite ==
    (call.op = "print_varx" /\ ~call.pre.in_sprite /\ hooks = "concrete") =>
        call.result = "PreconditionViolation"

\* C14: print_varx does not look at in_sprite itself.  Called while no sprite is
\* open with a size of 1 .. 4, on a writer whose hooks normalize through prepare_*,
\* it fails on the precondition of the first prepare_* call, for every value, and
\* nothing is counted or put out; with any other size it fails as an unsupported
\* width; with the hooks of BinaryOutputBase itself the hook raises.
C14_VarxOutsideSpriteBySize ==
    (call.op = "print_varx" /\ ~call.pre.in_sprite) =>
        /\ call.result = IF call.size \notin 1..4 THEN "UnsupportedWidth"
                         ELSE IF hooks = "concrete" THEN "PreconditionViolation"
                         ELSE "NotImplementedError"
        /\ Self = call.pre
        /\ \A i \in 1..Len(call.log) : call.log[i].out = None

\* print_varx(5, 1) before any sprite was started
C14_Witness ==
    /\ call.op = "print_varx" /\ ~call.pre.in_sprite /\ hooks = "concrete"
    /\ call.size = 1 /\ call.arg = Num(5)
    /\ call.result = "PreconditionViolation"

\* C15 as claimed: after close() has returned self.file is None again
C15_NoneAfterClose == (call.op = "close" /\ call.result = "ok") => file = "None"

\* C15: self.file is None from the construction to the first open(); every open()
\* makes it a new, empty, open buffer; a close() that returns leaves it a closed
\* buffer without contents, not None; a close() that fails and every other call
\* leave it as it is, but for the data a write appends.
C15_BufferLife ==
    /\ file = "None"
    /\ [](file \in {"None", "open", "closed"} /\ (file # "open" => buf = <<>>))
    /\ [][/\ call'.op = "open" => (file' = "open" /\ buf' = <<>>)
          /\ (call'.op = "close" /\ call'.result = "ok") =>
                (file = "open" /\ file' = "closed" /\ buf' = <<>>)
          /\ (call'.op = "close" /\ call'.result # "ok") => (file' = file /\ buf' = buf)
          /\ call'.op \notin {"open", "close"} => file' = file
          /\ file' = "None" => file = "None"]_vars

\* close() returned and left a closed buffer behind
C15_Witness ==
    /\ call.op = "close" /\ call.result = "ok"
    /\ call.before.file = "open" /\ call.before.buf # <<>>
    /\ file = "closed" /\ buf = <<>>

\* C16: while a sprite is open byte_count is the sum of the widths (1, 2, 4) of the
\* prepare_* calls that succeeded since the start_sprite that opened it;
\* start_sprite sets it to 0 whatever it was; a prepare_* call that succeeds adds
\* its width and leaves in_sprite and expected_count as they were.
C16_ByteCount ==
    /\ in_sprite => (byte_count = frame_sum /\ expected_count = frame_size)
    /\ (call.op = "start_sprite" /\ call.result = "ok") =>
          (in_sprite /\ byte_count = 0 /\ expected_count = call.size)
    /\ (call.op \in PrepareOps /\ call.result = "ok") =>
          /\ in_sprite = call.pre.in_sprite
          /\ expected_count = call.pre.expected_count
          /\ byte_count = call.pre.byte_count +
                (IF call.op = "prepare_byte" THEN 1
                 ELSE IF call.op = "prepare_word" THEN 2 ELSE 4)

\* a sprite started after one in which 4 bytes were counted
C16_Witness ==
    /\ call.op = "start_sprite" /\ call.result = "ok"
    /\ call.pre.byte_count = 4
    /\ in_sprite /\ byte_count = 0

\* C17: end_sprite called in a sprite sets in_sprite to false, then calls newline
\* once, then compares the counts: whether it returns, fails on the counts or
\* newline raises, newline is the one hook called and in_sprite is false after it,
\* and a start_sprite that follows is accepted.
C17_EndSpriteOrder ==
    [][/\ (call'.op = "end_sprite" /\ in_sprite) =>
             /\ ~in_sprite'
             /\ call'.log = <<Step("newline", None, None)>>
             /\ call'.result =
                   IF hooks = "abstract" THEN "NotImplementedError"
                   ELSE IF expected_count = byte_count THEN "ok"
                   ELSE "FrameLengthMismatch"
             /\ expected_count' = expected_count /\ byte_count' = byte_count
       /\ (call.op = "end_sprite" /\ call.pre.in_sprite /\ call'.op = "start_sprite") =>
             (call'.result = "ok" /\ in_sprite')]_vars

\* end_sprite failed on the counts, after the newline, and the sprite is closed
C17_Witness ==
    /\ call.op = "end_sprite" /\ call.pre.in_sprite
    /\ call.result = "FrameLengthMismatch"
    /\ call.log = <<Step("newline", None, None)>>
    /\ ~in_sprite

\* C18: the writer starts with no sprite open; in_sprite becomes true by a
\* start_sprite that succeeds and by nothing else, and false by the end_sprite
\* that follows and by nothing else; start_sprite succeeds only when no sprite is
\* open; end_sprite called when no sprite is open fails on its precondition and
\* changes nothing; the prepare_* calls never change in_sprite.
C18_FrameStateMachine ==
    /\ ~in_sprite
    /\ [][/\ (~in_sprite /\ in_sprite') =>
                (call'.op = "start_sprite" /\ call'.result = "ok")
          /\ (in_sprite /\ ~in_sprite') => call'.op = "end_sprite"
          /\ (call'.op = "start_sprite" /\ call'.result = "ok") =>
                (~in_sprite /\ in_sprite')
          /\ call'.op = "end_sprite" => ~in_sprite'
          /\ (call'.op = "end_sprite" /\ ~in_sprite) =>
                (call'.result = "PreconditionViolation" /\ call'.log = <<>>
                 /\ Self' = Self)
          /\ call'.op \in PrepareOps => in_sprite' = in_sprite]_vars

\* end_sprite called again after the sprite was ended
C18_Witness ==
    /\ call.op = "end_sprite" /\ ~call.pre.in_sprite
    /\ frame_sum > 0
    /\ call.result = "PreconditionViolation"
    /\ ~in_sprite

\* C19: open() called again before close() puts a new, empty buffer in the place
\* of the old one: what was written before it is gone, the buffer holds what was
\* written since the last open(), and the close() that follows hands the real
\* file that and no more.
C19_ReopenLosesBuffer ==
    /\ call.op = "open" => (file = "open" /\ buf = <<>>)
    /\ file = "open" => buf = staged
    /\ (call.op = "close" /\ call.result = "ok" /\ lost) =>
          real_file.written = <<staged>>

\* open() replaced a buffer with data, "b" was written, close() handed on "b" alone
C19_Witness ==
    /\ call.op = "close" /\ call.result = "ok" /\ lost
    /\ staged = <<"b">>
    /\ real_file.written = << <<"b">> >>

\* a call that was rejected, as C20 lists them
Rejected ==
    \/ call.op = "start_sprite" /\ call.result # "ok"
    \/ call.op \in PrepareOps /\ call.result # "ok"
    \/ call.op = "print_varx" /\ call.result = "UnsupportedWidth"
    \/ call.op = "close" /\ call.result = "PreconditionViolation"

\* C20: a call that is rejected leaves in_sprite, expected_count and byte_count as
\* they were: start_sprite in a sprite, prepare_* outside a sprite or with a value
\* out of range, print_varx with an unsupported size, close() in a sprite.
C20_RejectedCallChangesNothing == Rejected => Self = call.pre

\* prepare_dword(2^32) in a sprite with bytes counted, and the count as it was
C20_Witness ==
    /\ call.op = "prepare_dword" /\ call.arg = <<65536, 0>>
    /\ call.pre.in_sprite /\ call.pre.byte_count > 0
    /\ call.result = "RangeViolation"
    /\ byte_count = call.pre.byte_count

=============================================================================
